---- MODULE Spec2Model ----
(***************************************************************************)
(* dirio: run a shell command and sample the disk usage of a directory     *)
(* while it runs (src/src/main.rs).  The model has two threads of control  *)
(* (main and the monitoring thread spawned at line 90), the child process, *)
(* the file system entry behind args.path, the external `du` tool and the  *)
(* csv writer in front of the output sink.                                 *)
(***************************************************************************)
EXTENDS Integers, Sequences, FiniteSets, TLC

\* ------------------------------------------------------------------ bounds
\* Width in bits of the model's isize (the program's is 64).
Bits == 3
\* Longest first field of the stdout of `du` the model enumerates, in bytes.
MaxFieldLen == 2
\* Polls of the child that may report it alive before it has to exit.
MaxAlivePolls == 2
\* Largest args.rate, in milliseconds.
MaxRate == 1

\* ------------------------------------------------------- machine integers
RECURSIVE Pow2(_)
Pow2(n) == IF n = 0 THEN 1 ELSE 2 * Pow2(n - 1)

IsizeMin == -Pow2(Bits - 1)

IsizeMax == Pow2(Bits - 1) - 1

Isize == IsizeMin..IsizeMax

\* Two's-complement wrap of an integer into isize.
Wrap(x) == ((x - IsizeMin) % Pow2(Bits)) + IsizeMin

\* Mutant of Max: the latest value replaces the peak.
MaxLatest(a, b) == b

\* isize::max (line 54).
Max(a, b) == IF a >= b THEN a ELSE b

\* --------------------------------------------------------- bytes of stdout
Tab == "\t"

BadByte == "xFF"

\* Bytes the first field of the stdout is made of: digits, a sign, and a
\* byte that is not UTF-8.
FieldByte == {"1", "4", "-", BadByte}

Digit == [c \in {"0", "1", "2", "3", "4", "5", "6", "7", "8", "9"} |->
            CASE c = "0" -> 0 [] c = "1" -> 1 [] c = "2" -> 2 [] c = "3" -> 3
              [] c = "4" -> 4 [] c = "5" -> 5 [] c = "6" -> 6 [] c = "7" -> 7
              [] c = "8" -> 8 [] c = "9" -> 9]

IsDigit(c) == c \in DOMAIN Digit

SeqsUpTo(S, n) == UNION {[1..k -> S] : k \in 0..n}

\* What can follow the first field: nothing (no tab at all), a tab, or a tab
\* and more fields.
Trailers == {<<>>, <<Tab>>, <<Tab, "1", Tab>>}

\* What `du -d 0 path` can leave on stdout.
DuOutputs == {f \o t : f \in SeqsUpTo(FieldByte, MaxFieldLen), t \in Trailers}

\* memchr(b'\t', stdout): index of the first tab (0-based), or 0 - 1 for None.
memchr(needle, hay) ==
    IF \E i \in 1..Len(hay) : hay[i] = needle
    THEN (CHOOSE i \in 1..Len(hay) :
             hay[i] = needle /\ \A j \in 1..(i - 1) : hay[j] # needle) - 1
    ELSE -1

\* std::str::from_utf8 succeeds on the bytes.
from_utf8_ok(bytes) == \A i \in 1..Len(bytes) : bytes[i] # BadByte

Fail == [ok |-> FALSE, val |-> 0]

Good(v) == [ok |-> TRUE, val |-> v]

\* The digit loop of isize::from_str: checked multiply by ten, then checked
\* add (positive) or subtract (negative) of each digit.
RECURSIVE ParseDigits(_, _, _)
ParseDigits(ds, acc, positive) ==
    IF ds = <<>> THEN Good(acc)
    ELSE IF ~IsDigit(Head(ds)) THEN Fail
    ELSE LET m == acc * 10
             r == IF positive THEN m + Digit[Head(ds)] ELSE m - Digit[Head(ds)]
         IN  IF m \notin Isize \/ r \notin Isize THEN Fail
             ELSE ParseDigits(Tail(ds), r, positive)

\* str::parse::<isize>.
parse(text) ==
    IF text = <<>> THEN Fail
    ELSE IF Head(text) \in {"+", "-"}
         THEN IF Tail(text) = <<>> THEN Fail
              ELSE ParseDigits(Tail(text), 0, Head(text) = "+")
         ELSE ParseDigits(text, 0, TRUE)

\* Lines 64-67 of get_disk_usage on a captured stdout: "ok" with the size,
\* "err" (the ? on from_utf8 or parse) or "panic" (the expect on memchr).
ParseStdout(stdout) ==
    LET whitespace_idx == memchr(Tab, stdout)
        dir_size_text  == SubSeq(stdout, 1, whitespace_idx)
    IN  IF whitespace_idx < 0 THEN [kind |-> "panic", val |-> 0]
        ELSE IF ~from_utf8_ok(dir_size_text) THEN [kind |-> "err", val |-> 0]
        ELSE IF ~parse(dir_size_text).ok THEN [kind |-> "err", val |-> 0]
        ELSE [kind |-> "ok", val |-> parse(dir_size_text).val]

\* ------------------------------------------------------------------- rows
\* Row::new (lines 23-30).  The subtraction is isize arithmetic: a build
\* without overflow checks wraps it, a build with them panics instead (see
\* add_disk_usage), so this is the value only when no panic is raised.
Row_new(elapsed, disk_usage, initial_disk_usage, peak) ==
    [elapsed    |-> elapsed,
     disk_usage |-> disk_usage,
     delta      |-> Wrap(disk_usage - initial_disk_usage),
     peak       |-> peak]

\* disk_usage - initial_disk_usage leaves isize (line 27).
SubOverflows(a, b) == (a - b) \notin Isize

\* The header line csv writes before the first record (has_headers, line 43),
\* named after the fields of Row (lines 16-21).
HeaderLine == [tag |-> "header", cols |-> <<"elapsed", "disk_usage", "delta", "peak">>]

\* A serialized Row: one line, the fields in declaration order.
DataLine(row) ==
    [tag |-> "data", cols |-> <<row.elapsed, row.disk_usage, row.delta, row.peak>>]

\* ------------------------------------------------------------------ state
VARIABLES
    args,             \* Cli: rate and output (lines 109-124)
    overflow_checks,  \* the build panics on isize overflow (debug) or wraps (release)
    path_kind,        \* what is at args.path: "missing", "file" or "dir"
    now,              \* the monotonic clock, in milliseconds
    main_pc,          \* main's position
    exit_status,      \* "none" while running, then "ok", "err" or "panic"
    error,            \* where the error that ended the run came from
    sink_state,       \* the output handle: "none", "open" or "released"
    sink,             \* lines that reached the sink
    buf,              \* lines held in the csv writer's buffer
    header_written,   \* the csv writer has serialized its header
    monitor,          \* Monitor's fields, and whether it is live
    child,            \* the child process: "none", "alive" or "exited"
    child_handle,     \* the Child value: "none", "held" or "dropped"
    th_pc,            \* the monitoring thread's position
    th_result,        \* its result: "none", "ok", "err" or "panic"
    cmd_stdout,       \* stdout captured by main's get_disk_usage call (line 83)
    dir_size,         \* the monitoring thread's local dir_size
    initial_disk_usage, \* main's local initial_disk_usage (line 83)
    log,              \* history: what the monitoring thread has done, in order
    du_calls          \* history: times get_disk_usage has been called

vars == <<args, overflow_checks, path_kind, now, main_pc,
          exit_status, error, sink_state, sink, buf, header_written, monitor,
          child, child_handle, th_pc, th_result, cmd_stdout, dir_size,
          initial_disk_usage, log, du_calls>>

envVars == <<path_kind, now, child>>

sinkVars == <<sink_state, sink, buf, header_written>>

mainVars == <<main_pc, exit_status, error>>

threadVars == <<th_pc, th_result, log>>

localVars == <<cmd_stdout, dir_size, initial_disk_usage, du_calls>>

buildVars == <<args, overflow_checks>>

NoMonitor == [live |-> FALSE, start_time |-> 0, initial_disk_usage |-> 0,
              peak_disk_usage |-> 0]

Event(e, v) == [ev |-> e, val |-> v]

Init ==
    /\ args \in [rate : 0..MaxRate, output : {"stdout", "file"}]
    /\ overflow_checks \in BOOLEAN
    /\ path_kind \in {"missing", "file", "dir"}
    /\ now = 0
    /\ main_pc = "exists"
    /\ exit_status = "none"
    /\ error = "none"
    /\ sink_state = "none"
    /\ sink = <<>>
    /\ buf = <<>>
    /\ header_written = FALSE
    /\ monitor = NoMonitor
    /\ child = "none"
    /\ child_handle = "none"
    /\ th_pc = "unborn"
    /\ th_result = "none"
    /\ cmd_stdout = <<>>
    /\ dir_size = 0
    /\ initial_disk_usage = 0
    /\ log = <<>>
    /\ du_calls = 0

\* ------------------------------------------------------------ environment
\* Something else removes what is at args.path.
PathRemoved ==
    /\ path_kind # "missing"
    /\ exit_status = "none"
    /\ path_kind' = "missing"
    /\ UNCHANGED <<buildVars, now, child, mainVars, sinkVars, monitor,
                   child_handle, threadVars, localVars>>

\* The child command finishes on its own.
ChildExit ==
    /\ child = "alive"
    /\ child' = "exited"
    /\ UNCHANGED <<buildVars, path_kind, now, mainVars,
                   sinkVars, monitor, child_handle, threadVars, localVars>>

\* ------------------------------------------------------- get_disk_usage
\* What Command::output (line 63) can return: an io error, or the stdout of
\* du, which is empty when there is nothing at the path.
DuStdouts == IF path_kind = "missing" THEN {<<>>} ELSE DuOutputs


\* ------------------------------------------------------------------- main
\* main ends with an error or a panic: its locals are dropped, the output
\* handle with them (the csv writer, if any, holds nothing at these points).
MainFails(status, cause) ==
    /\ main_pc' = "exited"
    /\ exit_status' = status
    /\ error' = cause
    /\ sink_state' = IF sink_state = "open" THEN "released" ELSE sink_state
    /\ monitor' = [monitor EXCEPT !.live = FALSE]

\* Lines 73-76: bail unless something exists at the path.
CheckExists ==
    /\ main_pc = "exists"
    /\ IF path_kind = "missing"
       THEN MainFails("err", "config")
       ELSE /\ main_pc' = "is_dir"
            /\ UNCHANGED <<exit_status, error, sink_state, monitor>>
    /\ UNCHANGED <<buildVars, envVars, sink, buf, header_written, child_handle,
                   threadVars, localVars>>

\* Mutant of CheckIsDir: the is_dir test is missing.
CheckIsDirSkipped ==
    /\ main_pc = "is_dir"
    /\ main_pc' = "output_handle"
    /\ UNCHANGED <<buildVars, envVars, exit_status, error, sinkVars, monitor,
                   child_handle, threadVars, localVars>>

\* Lines 77-79: bail unless it is a directory.
CheckIsDir ==
    /\ main_pc = "is_dir"
    /\ IF path_kind # "dir"
       THEN MainFails("err", "config")
       ELSE /\ main_pc' = "output_handle"
            /\ UNCHANGED <<exit_status, error, sink_state, monitor>>
    /\ UNCHANGED <<buildVars, envVars, sink, buf, header_written, child_handle,
                   threadVars, localVars>>

\* Line 80 and Cli::output_handle (lines 126-131): stdout, or a file that
\* File::create creates or truncates, which can fail.
OutputHandle ==
    /\ main_pc = "output_handle"
    /\ \/ /\ main_pc' = "initial_du"
          /\ sink_state' = "open"
          /\ UNCHANGED <<exit_status, error, monitor>>
       \/ /\ args.output = "file"
          /\ MainFails("err", "output")
    /\ UNCHANGED <<buildVars, envVars, sink, buf, header_written, child_handle,
                   threadVars, localVars>>

\* Line 83, get_disk_usage line 63: run du and capture its stdout.
InitialDu ==
    /\ main_pc = "initial_du"
    /\ \/ /\ MainFails("err", "measure")
          /\ UNCHANGED cmd_stdout
       \/ /\ cmd_stdout' \in DuStdouts
          /\ main_pc' = "initial_parse"
          /\ UNCHANGED <<exit_status, error, sink_state, monitor>>
    /\ du_calls' = du_calls + 1
    /\ UNCHANGED <<buildVars, envVars, sink, buf, header_written, child_handle,
                   threadVars, dir_size, initial_disk_usage>>

\* Line 83, get_disk_usage lines 64-67: parse the captured stdout.
InitialParse ==
    /\ main_pc = "initial_parse"
    /\ LET r == ParseStdout(cmd_stdout)
       IN  CASE r.kind = "ok" ->
                  /\ initial_disk_usage' = r.val
                  /\ main_pc' = "monitor_new"
                  /\ UNCHANGED <<exit_status, error, sink_state, monitor>>
             [] r.kind = "err" ->
                  /\ MainFails("err", "measure")
                  /\ UNCHANGED initial_disk_usage
             [] r.kind = "panic" ->
                  /\ MainFails("panic", "measure")
                  /\ UNCHANGED initial_disk_usage
    /\ cmd_stdout' = <<>>
    /\ UNCHANGED <<buildVars, envVars, sink, buf, header_written, child_handle,
                   threadVars, dir_size, du_calls>>

\* Mutant of MonitorNew: the header is written to the sink when the writer
\* is built instead of with the first row.
MonitorNewWritesHeader ==
    /\ main_pc = "monitor_new"
    /\ monitor' = [live               |-> TRUE,
                   start_time         |-> now,
                   initial_disk_usage |-> initial_disk_usage,
                   peak_disk_usage    |-> initial_disk_usage]
    /\ sink' = sink \o <<HeaderLine>>
    /\ header_written' = TRUE
    /\ main_pc' = "spawn_child"
    /\ UNCHANGED <<buildVars, envVars, exit_status, error, sink_state, buf,
                   child_handle, threadVars, localVars>>

\* Line 84 and Monitor::new (lines 40-51).
MonitorNew ==
    /\ main_pc = "monitor_new"
    /\ monitor' = [live               |-> TRUE,
                   start_time         |-> now,
                   initial_disk_usage |-> initial_disk_usage,
                   peak_disk_usage    |-> initial_disk_usage]
    /\ main_pc' = "spawn_child"
    /\ UNCHANGED <<buildVars, envVars, exit_status, error, sinkVars,
                   child_handle, threadVars, localVars>>

\* Milliseconds that can pass between Monitor::new and the first sample,
\* while the child is spawned.
SpawnDelays == {0, 1}

\* Line 87: spawn `sh -c command`, which can fail.
SpawnChild ==
    /\ main_pc = "spawn_child"
    /\ \/ /\ child' = "alive"
          /\ child_handle' = "held"
          /\ main_pc' = "spawn_thread"
          /\ now' \in {now + d : d \in SpawnDelays}
          /\ UNCHANGED <<exit_status, error, sink_state, monitor>>
       \/ /\ MainFails("err", "spawn")
          /\ UNCHANGED <<child, child_handle, now>>
    /\ UNCHANGED <<buildVars, path_kind, sink, buf,
                   header_written, threadVars, localVars>>

\* Line 90: the monitoring thread starts, owning child, monitor and args.
SpawnThread ==
    /\ main_pc = "spawn_thread"
    /\ main_pc' = "join"
    /\ th_pc' = "poll"
    /\ UNCHANGED <<buildVars, envVars, exit_status, error, sinkVars, monitor,
                   child_handle, th_result, log, localVars>>

\* Mutant of Join: after the join main itself writes a last line with the
\* peak to the sink.
JoinWritesPeak ==
    /\ main_pc = "join"
    /\ th_pc = "finished"
    /\ main_pc' = "exited"
    /\ exit_status' = th_result
    /\ sink' = Append(sink, DataLine(Row_new(now - monitor.start_time,
                   monitor.peak_disk_usage, monitor.initial_disk_usage,
                   monitor.peak_disk_usage)))
    /\ UNCHANGED <<buildVars, envVars, error, sink_state, buf, header_written,
                   monitor, child_handle, threadVars, localVars>>

\* Mutant of Join: main does not wait for the thread (as if it were detached)
\* and returns Ok(()).
JoinDetached ==
    /\ main_pc = "join"
    /\ main_pc' = "exited"
    /\ exit_status' = "ok"
    /\ UNCHANGED <<buildVars, envVars, error, sinkVars, monitor, child_handle,
                   threadVars, localVars>>

\* Line 103: join the thread; unwrap panics if it panicked, ? returns its error.
Join ==
    /\ main_pc = "join"
    /\ th_pc = "finished"
    /\ main_pc' = "exited"
    /\ exit_status' = th_result
    /\ UNCHANGED <<buildVars, envVars, error, sinkVars, monitor, child_handle,
                   threadVars, localVars>>

\* ------------------------------------------------------------- the Monitor
\* What serialize (line 56) appends to the csv writer's buffer: the header
\* before the first row, then the row.
Serialized(row) ==
    IF header_written THEN <<DataLine(row)>> ELSE <<HeaderLine, DataLine(row)>>

\* A line of which only a proper prefix of the bytes reached the sink.
PartialLine(line) == [tag |-> "partial", cols |-> line.cols]

\* What a flush that fails part-way (write_all inside line 57's flush) leaves
\* in the sink: the first k lines of the buffer whole, then a piece of the next.
Torn(lines, k) == SubSeq(lines, 1, k) \o <<PartialLine(lines[k + 1])>>

\* Mutant of elapsed: the duration is taken the wrong way round.
elapsed_reversed == monitor.start_time - now

\* self.start_time.elapsed().as_millis() (line 53).
elapsed == now - monitor.start_time

\* Mutant of add_disk_usage: the row is serialized but line 57's flush is
\* missing, so a successful call leaves the row in the writer's buffer.
add_disk_usage_unflushed(size, res) ==
    LET peak    == Max(monitor.peak_disk_usage, size)
        row     == Row_new(elapsed, size, monitor.initial_disk_usage, peak)
    IN  /\ monitor' = [monitor EXCEPT !.peak_disk_usage = peak]
        /\ IF overflow_checks /\ SubOverflows(size, monitor.initial_disk_usage)
           THEN /\ res = "panic"
                /\ UNCHANGED <<sink, buf, header_written>>
           ELSE \/ /\ res = "err"
                   /\ UNCHANGED <<sink, buf, header_written>>
                \/ /\ res = "err"
                   /\ buf' = buf \o Serialized(row)
                   /\ header_written' = TRUE
                   /\ \/ UNCHANGED sink
                      \/ \E k \in 0..(Len(buf \o Serialized(row)) - 1) :
                            sink' = sink \o Torn(buf \o Serialized(row), k)
                \/ /\ res = "ok"
                   /\ buf' = buf \o Serialized(row)
                   /\ header_written' = TRUE
                   /\ UNCHANGED sink

\* Mutant of add_disk_usage: every record makes its sample the new baseline
\* and restarts the clock.
add_disk_usage_rebases(size, res) ==
    LET peak    == Max(monitor.peak_disk_usage, size)
        row     == Row_new(elapsed, size, monitor.initial_disk_usage, peak)
    IN  /\ monitor' = [monitor EXCEPT !.peak_disk_usage = peak,
                                   !.start_time = now,
                                   !.initial_disk_usage = size]
        /\ IF overflow_checks /\ SubOverflows(size, monitor.initial_disk_usage)
           THEN /\ res = "panic"
                /\ UNCHANGED <<sink, buf, header_written>>
           ELSE \/ /\ res = "err"                       \* serialize fails
                   /\ UNCHANGED <<sink, buf, header_written>>
                \/ /\ res = "err"                       \* flush fails
                   /\ buf' = buf \o Serialized(row)
                   /\ header_written' = TRUE
                   /\ UNCHANGED sink
                \/ /\ res = "err"                       \* flush fails part-way
                   /\ buf' = buf \o Serialized(row)
                   /\ header_written' = TRUE
                   /\ \E k \in 0..(Len(buf \o Serialized(row)) - 1) :
                         sink' = sink \o Torn(buf \o Serialized(row), k)
                \/ /\ res = "ok"
                   /\ sink' = sink \o buf \o Serialized(row)
                   /\ buf' = <<>>
                   /\ header_written' = TRUE

\* Monitor::add_disk_usage (lines 52-59), with result res: "ok", "err" (the ?
\* on serialize or on flush) or "panic" (Row::new overflows in a build with
\* overflow checks).  The peak is updated before the row is built.
add_disk_usage(size, res) ==
    LET peak    == Max(monitor.peak_disk_usage, size)
        row     == Row_new(elapsed, size, monitor.initial_disk_usage, peak)
    IN  /\ monitor' = [monitor EXCEPT !.peak_disk_usage = peak]
        /\ IF overflow_checks /\ SubOverflows(size, monitor.initial_disk_usage)
           THEN /\ res = "panic"
                /\ UNCHANGED <<sink, buf, header_written>>
           ELSE \/ /\ res = "err"                       \* serialize fails
                   /\ UNCHANGED <<sink, buf, header_written>>
                \/ /\ res = "err"                       \* flush fails
                   /\ buf' = buf \o Serialized(row)
                   /\ header_written' = TRUE
                   /\ UNCHANGED sink
                \/ /\ res = "err"                       \* flush fails part-way
                   /\ buf' = buf \o Serialized(row)
                   /\ header_written' = TRUE
                   /\ \E k \in 0..(Len(buf \o Serialized(row)) - 1) :
                         sink' = sink \o Torn(buf \o Serialized(row), k)
                \/ /\ res = "ok"
                   /\ sink' = sink \o buf \o Serialized(row)
                   /\ buf' = <<>>
                   /\ header_written' = TRUE

\* ------------------------------------------------- the monitoring thread
AlivePolls == Cardinality({i \in 1..Len(log) : log[i].ev = "poll_alive"})

\* The closure ends with an error or a panic (the ? operators of lines 92-99).
ThreadFails(status, cause, event) ==
    /\ th_pc' = "returning"
    /\ th_result' = status
    /\ error' = cause
    /\ log' = Append(log, Event(event, 0))

\* Mutant of PollChild: the loop has a timeout; after MaxAlivePolls rounds it
\* stops waiting for the child and goes on to the last sample.
PollChildGivesUp ==
    /\ th_pc = "poll"
    /\ \/ ThreadFails("err", "poll", "poll_failed")
       \/ /\ child = "exited"
          /\ th_pc' = "drain_measure"
          /\ log' = Append(log, Event("poll_exit", 0))
          /\ UNCHANGED <<th_result, error>>
       \/ /\ child = "alive"
          /\ AlivePolls < MaxAlivePolls
          /\ th_pc' = "loop_measure"
          /\ log' = Append(log, Event("poll_alive", 0))
          /\ UNCHANGED <<th_result, error>>
       \/ /\ child = "alive"
          /\ AlivePolls = MaxAlivePolls
          /\ th_pc' = "drain_measure"
          /\ log' = Append(log, Event("timeout", 0))
          /\ UNCHANGED <<th_result, error>>
    /\ UNCHANGED <<buildVars, envVars, main_pc, exit_status, sinkVars, monitor,
                   child_handle, localVars>>

\* Mutant of PollChild: the closure returns Ok(()) as soon as the child is
\* seen to have exited, without the sample of lines 98-99.
PollChildNoDrain ==
    /\ th_pc = "poll"
    /\ \/ ThreadFails("err", "poll", "poll_failed")
       \/ /\ child = "exited"
          /\ th_pc' = "returning"
          /\ th_result' = "ok"
          /\ log' = Append(log, Event("poll_exit", 0))
          /\ UNCHANGED error
       \/ /\ child = "alive"
          /\ AlivePolls < MaxAlivePolls
          /\ th_pc' = "loop_measure"
          /\ log' = Append(log, Event("poll_alive", 0))
          /\ UNCHANGED <<th_result, error>>
    /\ UNCHANGED <<buildVars, envVars, main_pc, exit_status, sinkVars, monitor,
                   child_handle, localVars>>

\* Line 92: child.try_wait(), a non-blocking poll of the child.
PollChild ==
    /\ th_pc = "poll"
    /\ \/ ThreadFails("err", "poll", "poll_failed")
       \/ /\ child = "exited"
          /\ th_pc' = "drain_measure"
          /\ log' = Append(log, Event("poll_exit", 0))
          /\ UNCHANGED <<th_result, error>>
       \/ /\ child = "alive"
          /\ AlivePolls < MaxAlivePolls
          /\ th_pc' = "loop_measure"
          /\ log' = Append(log, Event("poll_alive", 0))
          /\ UNCHANGED <<th_result, error>>
    /\ UNCHANGED <<buildVars, envVars, main_pc, exit_status, sinkVars, monitor,
                   child_handle, localVars>>

\* let dir_size = get_disk_usage(&args.path)? in the thread (lines 93 and
\* 98, get_disk_usage lines 62-68): run du, parse what it printed.
ThreadMeasure(at, next) ==
    /\ th_pc = at
    /\ \/ /\ ThreadFails("err", "measure", "measure_failed")
          /\ UNCHANGED dir_size
       \/ \E stdout \in DuStdouts :
             LET r == ParseStdout(stdout)
             IN  CASE r.kind = "ok" ->
                        /\ dir_size' = r.val
                        /\ th_pc' = next
                        /\ log' = Append(log, Event("measure", r.val))
                        /\ UNCHANGED <<th_result, error>>
                   [] r.kind = "err" ->
                        /\ ThreadFails("err", "measure", "measure_failed")
                        /\ UNCHANGED dir_size
                   [] r.kind = "panic" ->
                        /\ ThreadFails("panic", "measure", "measure_failed")
                        /\ UNCHANGED dir_size
    /\ du_calls' = du_calls + 1
    /\ UNCHANGED <<buildVars, envVars, main_pc, exit_status, sinkVars, monitor,
                   child_handle, cmd_stdout, initial_disk_usage>>

\* monitor.add_disk_usage(dir_size)? in the thread (lines 94 and 99); after a
\* success the thread goes on to `next` with result `result`.
ThreadRecord(at, next, result) ==
    /\ th_pc = at
    /\ \E res \in {"ok", "err", "panic"} :
          /\ add_disk_usage(dir_size, res)
          /\ CASE res = "ok" ->
                    /\ th_pc' = next
                    /\ th_result' = result
                    /\ log' = Append(log, Event("record", dir_size))
                    /\ UNCHANGED error
               [] res = "err" -> ThreadFails("err", "write", "record_failed")
               [] res = "panic" -> ThreadFails("panic", "overflow", "record_failed")
    /\ UNCHANGED <<buildVars, envVars, main_pc, exit_status, sink_state,
                   child_handle, localVars>>

\* Line 93.
LoopMeasure == ThreadMeasure("loop_measure", "loop_record")

\* Mutant of LoopRecord: the loop polls again right after the record, without
\* the sleep of line 95.
LoopRecordNoSleep == ThreadRecord("loop_record", "poll", "none")

\* Line 94.
LoopRecord == ThreadRecord("loop_record", "sleep", "none")

\* Line 95: sleep for args.rate milliseconds.  The clock of the model advances
\* here, by exactly args.rate, and while the child is spawned.
Sleep ==
    /\ th_pc = "sleep"
    /\ now' = now + args.rate
    /\ th_pc' = "poll"
    /\ log' = Append(log, Event("sleep", 0))
    /\ UNCHANGED <<buildVars, path_kind, child, mainVars, sinkVars, monitor,
                   child_handle, th_result, localVars>>

\* Line 98.
DrainMeasure == ThreadMeasure("drain_measure", "drain_record")

\* Mutant of DrainRecord: the last sample is taken inside the loop, so a
\* sleep and another poll follow it.
DrainRecordSleeps == ThreadRecord("drain_record", "sleep", "none")

\* Lines 99-101: the last record, then Ok(()).
DrainRecord == ThreadRecord("drain_record", "returning", "ok")

\* Mutant of ThreadReturn: dropping the Child kills the process.
ThreadReturnKills ==
    /\ th_pc = "returning"
    /\ th_pc' = "finished"
    /\ \/ sink' = sink \o buf
       \/ buf # <<>> /\ UNCHANGED sink
    /\ buf' = <<>>
    /\ sink_state' = "released"
    /\ monitor' = [monitor EXCEPT !.live = FALSE]
    /\ child_handle' = "dropped"
    /\ child' = "exited"
    /\ UNCHANGED <<buildVars, path_kind, now, mainVars, header_written,
                   th_result, log, localVars>>

\* Line 102: the closure returns or unwinds and drops what it owns.  Dropping
\* the csv writer flushes what its buffer still holds, ignoring errors; the
\* Child is dropped without being waited for or killed.
ThreadReturn ==
    /\ th_pc = "returning"
    /\ th_pc' = "finished"
    /\ \/ sink' = sink \o buf
       \/ buf # <<>> /\ UNCHANGED sink
    /\ buf' = <<>>
    /\ sink_state' = "released"
    /\ monitor' = [monitor EXCEPT !.live = FALSE]
    /\ child_handle' = "dropped"
    /\ UNCHANGED <<buildVars, envVars, mainVars, header_written, th_result,
                   log, localVars>>

\* ---------------------------------------------------------- specification
Next ==
    \/ PathRemoved \/ ChildExit
    \/ CheckExists \/ CheckIsDir \/ OutputHandle \/ InitialDu \/ InitialParse
    \/ MonitorNew \/ SpawnChild \/ SpawnThread \/ Join
    \/ PollChild \/ LoopMeasure \/ LoopRecord \/ Sleep
    \/ DrainMeasure \/ DrainRecord \/ ThreadReturn

Spec == Init /\ [][Next]_vars

\* The main thread and the monitoring thread are scheduled: a statement that
\* can run eventually runs, a sleep ends, a call returns.  Nothing is assumed
\* about the directory or about when, or whether, the child exits.
MainNext ==
    \/ CheckExists \/ CheckIsDir \/ OutputHandle \/ InitialDu \/ InitialParse
    \/ MonitorNew \/ SpawnChild \/ SpawnThread \/ Join

ThreadNext ==
    \/ PollChild \/ LoopMeasure \/ LoopRecord \/ Sleep
    \/ DrainMeasure \/ DrainRecord \/ ThreadReturn

FairSpec == Spec /\ WF_vars(MainNext) /\ WF_vars(ThreadNext)

\* ------------------------------------------------------------ properties
\* Positions in the log of the events named e.
Events(e) == {i \in 1..Len(log) : log[i].ev = e}

\* The data rows among lines, in order.
DataRows(lines) == SelectSeq(lines, LAMBDA l : l.tag = "data")

\* No poll, measure or record call of the loop has failed.
NoFailure == th_result \in {"none", "ok"}

\* The loop has reached Done: the closure returned Ok(()).
LoopDone == th_result = "ok"

\* C1: while no poll, measure or record call fails, the child's exit is
\* detected at most once and what the loop does after detecting it is a
\* prefix of one measure followed by one record; a loop that has reached Done
\* has done exactly that one cycle, after any number of alive polls, with no
\* sleep after it and one data row in the sink per record.
C1_OneFinalCycle ==
    NoFailure =>
        /\ Cardinality(Events("poll_exit")) <= 1
        /\ \A i \in Events("poll_exit") :
              /\ Len(log) <= i + 2
              /\ Len(log) >= i + 1 => log[i + 1].ev = "measure"
              /\ Len(log) >= i + 2 => log[i + 2].ev = "record"
        /\ LoopDone =>
              /\ \E i \in Events("poll_exit") : Len(log) = i + 2
              /\ Len(DataRows(sink)) = Cardinality(Events("record"))
              /\ Cardinality(Events("record")) = AlivePolls + 1

\* A run that completed after two or more alive polls.
C1_Witness ==
    /\ th_pc = "finished" /\ LoopDone /\ exit_status = "ok"
    /\ AlivePolls >= 2

\* C2: in a completed run the last data row of the sink holds the last
\* measurement taken, and that measurement was taken after the poll that
\* detected the child's exit, whatever the rate and whenever the child exited.
C2_LastRecordIsPostExit ==
    LoopDone =>
        LET rows == DataRows(sink)
            last == CHOOSE j \in Events("measure") :
                        \A k \in Events("measure") : k <= j
        IN  /\ rows # <<>>
            /\ Events("measure") # {}
            /\ rows[Len(rows)].cols[2] = log[last].val
            /\ \E i \in Events("poll_exit") : i < last
            /\ \A k \in Events("poll_alive") \cup Events("sleep") : k < last

\* A completed run with rate 0 whose child was seen alive once, and in which
\* the sample before the exit was detected differs from the one after it.
C2_Witness ==
    /\ LoopDone /\ th_pc = "finished" /\ args.rate = 0 /\ AlivePolls >= 1
    /\ LET rows == DataRows(sink)
       IN  Len(rows) >= 2 /\ rows[Len(rows)].cols[2] # rows[Len(rows) - 1].cols[2]

\* C3: a run whose first poll already reports the child's exit, and whose
\* measurement and record succeed, ends with at least one data row in the
\* sink, the sample taken after the exit, behind the header.
C3_ImmediateExitStillRecords ==
    (LoopDone /\ AlivePolls = 0) =>
        /\ Len(DataRows(sink)) >= 1
        /\ sink[1].tag = "header"
        /\ DataRows(sink)[1].cols[2] = dir_size

\* A completed run in which the child had exited before the first poll.
C3_Witness ==
    /\ LoopDone /\ th_pc = "finished" /\ AlivePolls = 0
    /\ Len(log) = 3 /\ log[1].ev = "poll_exit"

\* C4: the peaks of the rows in the sink never decrease, every row's peak is
\* at least its disk_usage, and the Monitor's peak is at least its
\* initial_disk_usage.
C4_PeakMonotone ==
    LET rows == DataRows(sink)
    IN  /\ \A i \in 1..Len(rows) : rows[i].cols[4] >= rows[i].cols[2]
        /\ \A i \in 1..Len(rows) : rows[i].cols[4] >= monitor.initial_disk_usage
        /\ \A i \in 1..(Len(rows) - 1) : rows[i].cols[4] <= rows[i + 1].cols[4]
        /\ monitor.peak_disk_usage >= monitor.initial_disk_usage

\* Two rows in the sink, the second with a smaller disk_usage than the first
\* and the first above the initial usage.
C4_Witness ==
    LET rows == DataRows(sink)
    IN  /\ Len(rows) >= 2
        /\ rows[2].cols[2] < rows[1].cols[2]
        /\ rows[1].cols[2] > monitor.initial_disk_usage

\* C5: every row has delta = disk_usage - initial_disk_usage as integers,
\* for all isize values, and the subtraction never aborts the run.
C5_DeltaExact ==
    /\ \A i \in 1..Len(DataRows(sink)) :
          DataRows(sink)[i].cols[3] =
              DataRows(sink)[i].cols[2] - monitor.initial_disk_usage
    /\ error # "overflow"

\* The measurements the loop has taken, in order.
Measurements ==
    LET ms == SelectSeq(log, LAMBDA e : e.ev = "measure")
    IN  [i \in 1..Len(ms) |-> ms[i].val]

\* max(u0, m[1], ..., m[i]).
RECURSIVE RunningMax(_, _, _)
RunningMax(u0, m, i) ==
    IF i = 0 THEN u0
    ELSE LET p == RunningMax(u0, m, i - 1) IN IF m[i] > p THEN m[i] ELSE p

\* C6: the i-th row of the sink has disk_usage = m_i, delta = m_i - u0 and
\* peak = max(u0, m_1, ..., m_i), for the measurements m_1, m_2, ... in the
\* order they were fed and the initial usage u0.
C6_RowsFollowMeasurements ==
    LET rows == DataRows(sink)
        u0   == monitor.initial_disk_usage
    IN  \A i \in 1..Len(rows) :
           /\ i <= Len(Measurements)
           /\ rows[i].cols[2] = Measurements[i]
           /\ rows[i].cols[3] = Measurements[i] - u0
           /\ rows[i].cols[4] = RunningMax(u0, Measurements, i)

\* C7: when the stdout of du is malformed (no tab, or no number before it),
\* get_disk_usage returns an error to its caller, here main at line 83, and
\* nothing is written.
C7_MalformedIsError ==
    [][(/\ main_pc = "initial_parse" /\ main_pc' # main_pc
        /\ ParseStdout(cmd_stdout).kind # "ok") =>
          (/\ exit_status' = "err"
           /\ error' = "measure"
           /\ sink' = sink /\ buf' = buf)]_vars

\* C8: once a measure or record call of the loop has failed, the failure is
\* the last thing the loop did, the sink holds exactly the rows of the
\* records that succeeded before it, and the run ends with a failure.
C8_FailureAborts ==
    (th_result \in {"err", "panic"} /\ error \in {"measure", "write", "overflow"}) =>
        /\ log[Len(log)].ev \in {"measure_failed", "record_failed"}
        /\ Cardinality(Events("measure_failed") \cup Events("record_failed")) = 1
        /\ Len(DataRows(sink)) = Cardinality(Events("record"))
        /\ exit_status \in {"none", "err", "panic"}
        /\ main_pc = "exited" => exit_status \in {"err", "panic"}

\* C9: when the exists test finds nothing at the path, or the is_dir test
\* finds something that is not a directory, main ends there with the
\* configuration error; and a run that ended with it has spawned no child,
\* opened no sink, run no du, started no thread and written nothing.
C9_ConfigErrorFirst ==
    /\ [](error = "config" =>
            /\ exit_status = "err" /\ main_pc = "exited"
            /\ child = "none" /\ child_handle = "none"
            /\ sink_state = "none" /\ sink = <<>> /\ buf = <<>>
            /\ du_calls = 0 /\ ~monitor.live /\ th_pc = "unborn")
    /\ [][((main_pc = "exists" /\ path_kind = "missing" /\ main_pc' # main_pc)
            \/ (main_pc = "is_dir" /\ path_kind # "dir" /\ main_pc' # main_pc)) =>
              (error' = "config" /\ exit_status' = "err" /\ main_pc' = "exited")]_vars

\* A run that ended with the configuration error at the is_dir test.
C9_Witness ==
    /\ error = "config" /\ main_pc = "exited" /\ exit_status = "err"
    /\ path_kind = "file"

\* C10 as claimed: after a failed spawn of the child no loop has started and
\* the sink has not been created or opened, nor written.
C10_SpawnFailureNoSink ==
    error = "spawn" =>
        /\ th_pc = "unborn"
        /\ sink_state = "none"
        /\ sink = <<>>

\* C10 as amended: after a failed spawn of the child the run has failed, no
\* loop has started, no child runs and neither header nor row has been
\* written; the sink had been opened at line 80 and has been released empty.
C10_SpawnFailureNoRows ==
    error = "spawn" =>
        /\ exit_status = "err" /\ main_pc = "exited"
        /\ th_pc = "unborn" /\ log = <<>>
        /\ child = "none" /\ child_handle = "none"
        /\ sink = <<>> /\ buf = <<>> /\ ~header_written
        /\ sink_state = "released"
        /\ ~monitor.live

\* A run whose output is a file and whose child could not be spawned.
C10_Witness ==
    /\ error = "spawn" /\ main_pc = "exited" /\ args.output = "file"
    /\ du_calls = 1

\* C11: the elapsed values of the rows in the sink never decrease and none
\* is negative, and the rows are in the order their measurements were taken,
\* also when two of them have the same elapsed value.
C11_ElapsedMonotone ==
    LET rows == DataRows(sink)
    IN  /\ \A i \in 1..Len(rows) : rows[i].cols[1] >= 0
        /\ \A i \in 1..(Len(rows) - 1) : rows[i].cols[1] <= rows[i + 1].cols[1]
        /\ \A i \in 1..Len(rows) :
              i <= Len(Measurements) /\ rows[i].cols[2] = Measurements[i]

\* Two rows with the same elapsed value, above zero, and different sizes, the
\* second being the sample taken after the child's exit.
C11_Witness ==
    LET rows == DataRows(sink)
    IN  /\ LoopDone /\ Len(rows) = 2
        /\ rows[1].cols[1] = rows[2].cols[1] /\ rows[1].cols[1] > 0
        /\ rows[1].cols[2] # rows[2].cols[2]

\* C12: while every add_disk_usage call so far has returned successfully, the
\* sink shows one data row per call, the last of them carrying the size given
\* to the last call, after the header, and the writer's buffer is empty: no
\* row waits in the buffer between two calls.
C12_RecordIsFlushed ==
    LET rows == DataRows(sink)
        recs == SelectSeq(log, LAMBDA e : e.ev = "record")
    IN  NoFailure =>
          /\ buf = <<>>
          /\ Len(rows) = Len(recs)
          /\ \A i \in 1..Len(rows) : rows[i].cols[2] = recs[i].val
          /\ Len(recs) > 0 => sink[1].tag = "header"

\* The first record of the loop has returned and the thread is about to sleep,
\* the child still running: the row is in the sink already.
C12_Witness ==
    /\ th_pc = "sleep" /\ child = "alive"
    /\ Cardinality(Events("record")) = 1
    /\ Len(DataRows(sink)) = 1 /\ buf = <<>>

\* C13: once the thread has been started, main has no result before the
\* thread has finished, and its result is then the thread's: success exactly
\* when the loop reached Done, otherwise the loop's failure.
C13_JoinPropagates ==
    /\ (th_pc # "unborn" /\ th_pc # "finished") =>
          (main_pc = "join" /\ exit_status = "none")
    /\ (th_pc # "unborn" /\ main_pc = "exited") =>
          /\ th_pc = "finished"
          /\ exit_status = th_result
          /\ (exit_status = "ok") = LoopDone

\* The loop failed with an error after at least one good record and main has
\* returned that error.
C13_Witness ==
    /\ main_pc = "exited" /\ th_pc = "finished"
    /\ th_result = "err" /\ exit_status = "err"
    /\ Cardinality(Events("record")) >= 1

\* A step of the main thread (every statement of main moves main_pc), a step
\* of the monitoring thread (every statement of the closure moves th_pc, once
\* the thread exists), and a step that constructs, reads for writing, writes
\* or releases the Monitor or the sink.
MainStep == main_pc' # main_pc

ThreadStep == th_pc # "unborn" /\ th_pc' # th_pc

TouchesMonitor == <<monitor, sinkVars>>' # <<monitor, sinkVars>>

\* C14 as stated: every access to the Monitor and the sink, from construction
\* to release, is a step of the monitoring thread.
C14_OnlyThreadTouches == [][TouchesMonitor => ThreadStep]_vars

\* C14: the Monitor and the sink are constructed by the main thread, which is
\* the only one to touch them while the monitoring thread does not exist (and
\* releases them itself if the run ends before line 90); from the start of
\* the thread on every access, the release included, is a step of the
\* monitoring thread while main waits at the join.  No step belongs to both.
C14_OwnershipHandedOver ==
    [][/\ TouchesMonitor =>
             \/ MainStep /\ th_pc = "unborn" /\ th_pc' = "unborn"
             \/ ThreadStep /\ main_pc = "join" /\ main_pc' = "join"
       /\ ~(MainStep /\ ThreadStep)]_vars

\* The thread has written the header and at least one row and has released
\* the sink, and main is still waiting at the join.
C14_Witness ==
    /\ main_pc = "join" /\ th_pc = "finished"
    /\ sink_state = "released" /\ Len(DataRows(sink)) >= 1

\* C15: when the run has ended, the sink has been released with nothing left
\* in the writer's buffer and the child handle is no longer held; and once a
\* sample has failed every line in the sink is a whole line.
C15_ReleasedAndWhole ==
    /\ main_pc = "exited" =>
          /\ sink_state # "open" /\ buf = <<>>
          /\ child_handle # "held"
    /\ ~NoFailure =>
          \A i \in 1..Len(sink) : sink[i].tag \in {"header", "data"}

\* The release half of C15 on its own: it holds on every exit path.
C15_Released ==
    main_pc = "exited" =>
       /\ sink_state # "open" /\ buf = <<>>
       /\ child_handle # "held"

\* The statements of main in program order.
MainRank(pc) ==
    CASE pc = "exists"        -> 1
      [] pc = "is_dir"        -> 2
      [] pc = "output_handle" -> 3
      [] pc = "initial_du"    -> 4
      [] pc = "initial_parse" -> 5
      [] pc = "monitor_new"   -> 6
      [] pc = "spawn_child"   -> 7
      [] pc = "spawn_thread"  -> 8
      [] pc = "join"          -> 9
      [] pc = "exited"        -> 10

\* A step in which start_time or initial_disk_usage of the Monitor is given a
\* value: its construction, or a later change.
SetsMonitorBase ==
    \/ monitor'.live /\ ~monitor.live
    \/ monitor'.start_time # monitor.start_time
    \/ monitor'.initial_disk_usage # monitor.initial_disk_usage

\* C16: main only moves forward, so Monitor::new runs at most once; the only
\* step that sets start_time and initial_disk_usage is that construction,
\* which uses the measurement taken just before it and happens while no child
\* and no monitoring thread exists; and whenever the child has been spawned
\* the Monitor has been constructed from that measurement.
C16_ConstructedOnceBeforeSpawn ==
    /\ [](child # "none" =>
            /\ MainRank(main_pc) > MainRank("spawn_child")
            /\ monitor.initial_disk_usage = initial_disk_usage
            /\ monitor.start_time <= now)
    /\ [][/\ MainStep => MainRank(main_pc') > MainRank(main_pc)
          /\ SetsMonitorBase =>
                /\ main_pc = "monitor_new" /\ main_pc' = "spawn_child"
                /\ child = "none" /\ th_pc = "unborn" /\ du_calls = 1
                /\ monitor'.start_time = now
                /\ monitor'.initial_disk_usage = initial_disk_usage]_vars

\* A completed run with two records, at a time after start_time and with a
\* sample that differs from the initial one.
C16_Witness ==
    LET rows == DataRows(sink)
    IN  /\ LoopDone /\ main_pc = "exited" /\ Len(rows) = 2
        /\ now > monitor.start_time
        /\ rows[1].cols[2] # monitor.initial_disk_usage

\* What the loop does after a poll that found the child alive, up to and
\* including the next poll.
CycleAfterAlive ==
    <<{"measure"}, {"record"}, {"sleep"}, {"poll_alive", "poll_exit"}>>

FailureEvents == {"poll_failed", "measure_failed", "record_failed"}

\* C17: every poll that found the child alive is followed in the log by one
\* measure, one record, one sleep and then the next poll, in that order; only
\* a failure, which ends the log, can take the place of a step.  A loop that
\* reached Done has made one record, and one data row, per alive poll, plus
\* one.
C17_CycleShape ==
    /\ \A i \in Events("poll_alive") :
          \A k \in 1..4 :
             i + k <= Len(log) =>
                \/ log[i + k].ev \in CycleAfterAlive[k]
                \/ log[i + k].ev \in FailureEvents /\ i + k = Len(log)
    /\ LoopDone =>
          /\ Cardinality(Events("record")) = AlivePolls + 1
          /\ Cardinality(Events("sleep")) = AlivePolls
          /\ Len(DataRows(sink)) = AlivePolls + 1

\* A completed run in which the child was found alive twice: three rows.
C17_Witness ==
    /\ LoopDone /\ AlivePolls = 2
    /\ Len(DataRows(sink)) = 3
    /\ Cardinality(Events("sleep")) = 2

\* The thread has left the while loop of line 92.
LeftLoop == th_pc \in {"drain_measure", "drain_record", "returning", "finished"}

\* C18: in a run in which no poll, measure or record call ever fails and the
\* child exits at some time, the loop reaches Done and main ends with
\* success; a cycle that has begun is completed unless a call fails; and the
\* loop is left only after a poll that reported the child's exit, or by a
\* failure: Done implies that the child has exited and that one poll said so.
C18_RunsToDone ==
    /\ ([]NoFailure /\ <>(child = "exited")) =>
          <>(LoopDone /\ main_pc = "exited" /\ exit_status = "ok")
    /\ (th_pc = "loop_measure") ~> (th_pc = "poll" \/ ~NoFailure)
    /\ [](LeftLoop /\ NoFailure =>
            /\ child = "exited"
            /\ Cardinality(Events("poll_exit")) = 1
            /\ log[Len(log)].ev \in {"poll_exit", "measure", "record"})

\* A successful end of a run whose child was found alive before it exited.
C18_Witness ==
    /\ main_pc = "exited" /\ exit_status = "ok"
    /\ child = "exited" /\ AlivePolls >= 1
    /\ Cardinality(Events("poll_exit")) = 1

\* C19: the state of the child process changes in two ways only: main's
\* spawn starts it, and it exits by itself, in a step that is neither main's
\* nor the monitoring thread's.  Every other step of the program, on the
\* failure paths and in the release of the handle too, leaves it as it was.
C19_ChildLeftAlone ==
    [][child' # child =>
          \/ /\ child = "none" /\ child' = "alive"
             /\ main_pc = "spawn_child" /\ main_pc' = "spawn_thread"
          \/ /\ child = "alive" /\ child' = "exited"
             /\ ~MainStep /\ th_pc' = th_pc
             /\ child_handle' = child_handle]_vars

\* The run has failed and main has ended, the handle has been dropped, and
\* the child is still running.
C19_Witness ==
    /\ main_pc = "exited" /\ exit_status = "err"
    /\ child_handle = "dropped" /\ child = "alive"

\* The sink is empty, or is the header followed by data rows only.
HeaderThenRows ==
    /\ sink # <<>> => sink[1].tag = "header"
    /\ \A i \in 2..Len(sink) : sink[i].tag = "data"

\* C20: the sink is empty or starts with the header, every line after the
\* first is a data row (so the header appears once and every write after it
\* added data rows only), and a run that failed without a successful record
\* has left no data row.
C20_HeaderOnce ==
    /\ HeaderThenRows
    /\ (~NoFailure /\ Events("record") = {}) => DataRows(sink) = <<>>

\* The part of C20 that holds: as long as no call has failed the sink is the
\* header followed by one data row per record.
C20_HeaderOnceWhileNoFailure ==
    NoFailure =>
       /\ HeaderThenRows
       /\ Len(sink) = IF Events("record") = {} THEN 0
                      ELSE 1 + Cardinality(Events("record"))

====
